---- MODULE Spec2Model ----
(***************************************************************************)
(* cppunzip: in-memory reading of a ZIP archive from a random-access byte  *)
(* source.  The model keeps the byte source as bytes and translates the    *)
(* readers of cppunzip.hpp (EOCDRReader, CDReader, FileEntryReader,        *)
(* Inflater, FileEntry, FileEntryLister, UnZipper) and the iterator        *)
(* variant of the facade kept in sample_test.cpp (file_entry_iterator,     *)
(* FileEntryLister::begin/end).                                            *)
(*                                                                         *)
(* Widths: size_t is taken as 64 bits (LP64).  Every 32-bit field the      *)
(* model builds stays below 2^30, so no uint32_t sum of the code wraps in  *)
(* any behaviour of the model.                                             *)
(***************************************************************************)
EXTENDS Integers, Sequences, FiniteSets, TLC

(* ------------------------------ bounds -------------------------------- *)
\* entries stored in one archive
MaxEntries == 2
\* enumerations (listFiles() / begin()) started from one UnZipper
MaxPasses == 2
\* calls made on one enumeration after it failed or reached its end
MaxMisuse == 1

(* ------------------------- program constants --------------------------- *)
EOCDR_SIZE == 22
CDR_SIZE == 46
LOCAL_FILE_HEADER_SIZE == 30
bufLens64K == <<1024, 64 * 1024>>

bufLens == <<1024, 65 * 1024>>

\* zlib's inflate() return codes the code tells apart
Z_OK == 0
Z_STREAM_END == 1
\* the other codes inflate() can return: Z_DATA_ERROR, Z_BUF_ERROR
OtherStatuses == {-3, -5}

(* ------------------------------ errors --------------------------------- *)
\* The texts of the UnZipError each throw site raises ("" is no error).
NoError == ""
ErrOutside == "Try to read outside of file end."
ErrCDShort == "Fail to read expected size in CDReader"
ErrCDSig == "Central Directory header signature does not match."
ErrLFHShort == "Fail to read expected size in FileEntryReader"
ErrLFHSig == "Local File header signature does not match."
ErrLFHOffset == "Wrong local file header. File content offset exceeds file size."
ErrDstSize == "dst buffer size and compressed size differs."
ErrRawShort == "Can't read enough in readRawContent."
ErrMethod == "Only deflate compression is supported"
ErrNoNeed == "File is uncompressed, no need to call decompressRawContent"
ErrMismatch == "srcSize or dstSize of decompressRawContent mismatch."
ErrInflateInit == "Fail to initialize zlib inflate."
ErrInflate == "Fail to inflate: "
ErrInflateSize == "Not enough deflate result."
ErrEOCDSmall == "Can't read enough size for End of Central Directory Record. Too small file or read error."
ErrEOCDNotFound == "Can't find End of Central Directory Record. Corrupted zip file."

(* --------------------------- the byte source --------------------------- *)
\* A source is [size, chunks, patch]: the chunks laid end to end, a chunk
\* being its data repeated up to its length, with one byte overwritten by
\* the patch ([pos |-> -1] : none).
Min(a, b) == IF a < b THEN a ELSE b

RECURSIVE ChunkByte(_, _, _)
ChunkByte(chunks, i, pos) ==
  IF i > Len(chunks) THEN 0
  ELSE IF pos < chunks[i].len
       THEN chunks[i].data[(pos % Len(chunks[i].data)) + 1]
       ELSE ChunkByte(chunks, i + 1, pos - chunks[i].len)

ByteAt(f, pos) ==
  IF pos = f.patch.pos THEN f.patch.val ELSE ChunkByte(f.chunks, 1, pos)

\* File::readAt: throws when pos > _size, else the count _readAt returns,
\* which for a source of _size bytes is what is left from pos, at most size.
ReadAt(f, pos, size) ==
  IF pos > f.size
  THEN [err |-> ErrOutside, count |-> 0, reads |-> {}]
  ELSE [err |-> NoError, count |-> Min(size, f.size - pos),
        reads |-> {[pos |-> pos, len |-> size]}]

\* File::readSpecificSize: readAt, and errMsg when the count is not size.
ReadSpecificSize(f, offset, size, errMsg) ==
  LET r == ReadAt(f, offset, size)
  IN  IF r.err # NoError THEN r
      ELSE IF r.count # size THEN [r EXCEPT !.err = errMsg]
      ELSE r

\* Read2Byte / Read4Byte on a buffer filled from the source at base.
Read2Byte(f, base, pos) ==
  ByteAt(f, base + pos) + ByteAt(f, base + pos + 1) * 256

Read4Byte(f, base, pos) ==
  ByteAt(f, base + pos) + ByteAt(f, base + pos + 1) * 256
    + ByteAt(f, base + pos + 2) * 65536 + ByteAt(f, base + pos + 3) * 16777216

Bytes(f, base, n) == [i \in 1..n |-> ByteAt(f, base + i - 1)]

(* ------------------------------ records -------------------------------- *)
EOCDRecord(cdEntryNum, cdSize, cdOffset) ==
  [cdEntryNum |-> cdEntryNum, cdSize |-> cdSize, cdOffset |-> cdOffset]

NoEOCD == EOCDRecord(0, 0, 0)

\* impl::CDRecord() value-initialised: every field zero, the strings empty.
EmptyCDRecord ==
  [flags |-> 0, compressionMethod |-> 0, lastModTime |-> 0, lastModDate |-> 0,
   crc |-> 0, compressedSize |-> 0, uncompressedSize |-> 0,
   fileNameLength |-> 0, extraFieldLength |-> 0, commentLength |-> 0,
   internalFileAttrs |-> 0, externalFileAttrs |-> 0, localHeaderOffset |-> 0,
   fileName |-> <<>>, extraField |-> <<>>, comment |-> <<>>]

\* CDRecord::isDir: the name is not empty and its last character is '/'.
IsDir(rec) ==
  Len(rec.fileName) # 0 /\ rec.fileName[Len(rec.fileName)] = 47

(* ---------------------------- EOCDRReader ------------------------------ *)
\* The signature 50 4B 05 06 at buf[pos..pos+3], buf read from base.
HasEOCDSig(f, base, pos) ==
  /\ ByteAt(f, base + pos) = 80
  /\ ByteAt(f, base + pos + 1) = 75
  /\ ByteAt(f, base + pos + 2) = 5
  /\ ByteAt(f, base + pos + 3) = 6

\* The positions the loop of findEndOfCDRInBlock would return at.
EOCDCandidates(f, base, len) ==
  {pos \in 0..(len - EOCDR_SIZE) :
     /\ HasEOCDSig(f, base, pos)
     /\ pos + EOCDR_SIZE + Read2Byte(f, base, pos + EOCDR_SIZE - 2) <= len}

FindNoCommentCheck(f, base, len) ==
  LET c == {pos \in 0..(len - EOCDR_SIZE) : HasEOCDSig(f, base, pos)}
  IN  IF c = {} THEN -1 ELSE CHOOSE p \in c : \A q \in c : q <= p

\* findEndOfCDRInBlock: pos runs from len-22 down to 0, the first hit is
\* returned, -1 when there is none.
FindEndOfCDRInBlock(f, base, len) ==
  LET c == EOCDCandidates(f, base, len)
  IN  IF c = {} THEN -1 ELSE CHOOSE p \in c : \A q \in c : q <= p

\* One turn of the loop of readEOCDRecord, for bufLens[i].
EOCDAttempt(f, i) ==
  LET bufSize  == bufLens[i]
      origin   == IF f.size > bufSize THEN f.size - bufSize ELSE 0
      r        == ReadAt(f, origin, bufSize)
      readSize == r.count
      sigPos   == FindEndOfCDRInBlock(f, origin, readSize)
  IN  IF r.err # NoError
      THEN [kind |-> "throw", err |-> r.err, reads |-> r.reads,
            sigAt |-> -1, rec |-> NoEOCD]
      ELSE IF readSize <= EOCDR_SIZE
      THEN [kind |-> "throw", err |-> ErrEOCDSmall, reads |-> r.reads,
            sigAt |-> -1, rec |-> NoEOCD]
      ELSE IF sigPos = -1
      THEN [kind |-> "continue", err |-> NoError, reads |-> r.reads,
            sigAt |-> -1, rec |-> NoEOCD]
      ELSE [kind |-> "return", err |-> NoError, reads |-> r.reads,
            sigAt |-> origin + sigPos,
            rec |-> EOCDRecord(Read2Byte(f, origin + sigPos, 10),
                               Read4Byte(f, origin + sigPos, 12),
                               Read4Byte(f, origin + sigPos, 16))]

\* readEOCDRecord: the two windows in turn, the first record found.
ReadEOCDRecord(f) ==
  LET a1 == EOCDAttempt(f, 1)
  IN  IF a1.kind # "continue"
      THEN [err |-> a1.err, rec |-> a1.rec, sigAt |-> a1.sigAt,
            attempts |-> 1, reads |-> a1.reads]
      ELSE LET a2 == EOCDAttempt(f, 2)
           IN  IF a2.kind # "continue"
               THEN [err |-> a2.err, rec |-> a2.rec, sigAt |-> a2.sigAt,
                     attempts |-> 2, reads |-> a1.reads \cup a2.reads]
               ELSE [err |-> ErrEOCDNotFound, rec |-> NoEOCD, sigAt |-> -1,
                     attempts |-> 2, reads |-> a1.reads \cup a2.reads]

(* ------------------------------ CDReader ------------------------------- *)
\* CDReader(file, eocd): the cursor at _cdOffset, the end at the uint32_t
\* sum _cdOffset + _cdSize.
CDEnd(eocd) == eocd.cdOffset + eocd.cdSize

\* CDReader::isEnd
IsEnd(curOffset, endOffset) == curOffset >= endOffset

\* The fixed 46 bytes at cur decoded, and the three variable parts.
DecodeCDRecord(f, cur) ==
  LET fn == Read2Byte(f, cur, 28)
      ex == Read2Byte(f, cur, 30)
      cm == Read2Byte(f, cur, 32)
  IN  [flags |-> Read2Byte(f, cur, 8),
       compressionMethod |-> Read2Byte(f, cur, 10),
       lastModTime |-> Read2Byte(f, cur, 12),
       lastModDate |-> Read2Byte(f, cur, 14),
       crc |-> Read4Byte(f, cur, 16),
       compressedSize |-> Read4Byte(f, cur, 20),
       uncompressedSize |-> Read4Byte(f, cur, 24),
       fileNameLength |-> fn,
       extraFieldLength |-> ex,
       commentLength |-> cm,
       internalFileAttrs |-> Read2Byte(f, cur, 36),
       externalFileAttrs |-> Read4Byte(f, cur, 38),
       localHeaderOffset |-> Read4Byte(f, cur, 42),
       fileName |-> Bytes(f, cur + 46, fn),
       extraField |-> Bytes(f, cur + 46 + fn, ex),
       comment |-> Bytes(f, cur + 46 + fn + ex, cm)]

CDFail(cur, err, reads) ==
  [err |-> err, rec |-> EmptyCDRecord, curOffset |-> cur, reads |-> reads]

ReadOneNoSigCheck(f, cur) ==
  LET r0 == ReadSpecificSize(f, cur, CDR_SIZE, ErrCDShort)
      fn == Read2Byte(f, cur, 28)
      ex == Read2Byte(f, cur, 30)
      cm == Read2Byte(f, cur, 32)
      r1 == ReadSpecificSize(f, cur + 46, fn, ErrCDShort)
      r2 == ReadSpecificSize(f, cur + 46 + fn, ex, ErrCDShort)
      r3 == ReadSpecificSize(f, cur + 46 + fn + ex, cm, ErrCDShort)
      rs == r0.reads \cup r1.reads \cup r2.reads \cup r3.reads
  IN  IF r0.err # NoError THEN CDFail(cur, r0.err, r0.reads)
      ELSE IF r1.err # NoError \/ r2.err # NoError \/ r3.err # NoError
      THEN CDFail(cur, ErrCDShort, rs)
      ELSE [err |-> NoError, rec |-> DecodeCDRecord(f, cur),
            curOffset |-> cur + 46 + fn + ex + cm, reads |-> rs]

ReadOneShortAdvance(f, cur) ==
  LET r0 == ReadSpecificSize(f, cur, CDR_SIZE, ErrCDShort)
      fn == Read2Byte(f, cur, 28)
      ex == Read2Byte(f, cur, 30)
      cm == Read2Byte(f, cur, 32)
      r1 == ReadSpecificSize(f, cur + 46, fn, ErrCDShort)
      r2 == ReadSpecificSize(f, cur + 46 + fn, ex, ErrCDShort)
      r3 == ReadSpecificSize(f, cur + 46 + fn + ex, cm, ErrCDShort)
      rs == r0.reads \cup r1.reads \cup r2.reads \cup r3.reads
  IN  IF r0.err # NoError THEN CDFail(cur, r0.err, r0.reads)
      ELSE IF \/ ByteAt(f, cur) # 80 \/ ByteAt(f, cur + 1) # 75
              \/ ByteAt(f, cur + 2) # 1 \/ ByteAt(f, cur + 3) # 2
      THEN CDFail(cur, ErrCDSig, r0.reads)
      ELSE IF r1.err # NoError \/ r2.err # NoError \/ r3.err # NoError
      THEN CDFail(cur, ErrCDShort, rs)
      ELSE [err |-> NoError, rec |-> DecodeCDRecord(f, cur),
            curOffset |-> cur + 46 + fn + ex, reads |-> rs]

ReadOneLengthsOnly(f, cur) ==
  LET r  == ReadOneNoSigCheck(f, cur)
      fn == Read2Byte(f, cur, 28)
      ex == Read2Byte(f, cur, 30)
      cm == Read2Byte(f, cur, 32)
  IN  IF r.err # NoError THEN r
      ELSE [r EXCEPT !.curOffset = cur + fn + ex + cm]

\* CDReader::readOne at _curOffset = cur: the record and the new _curOffset,
\* or the error thrown with _curOffset left as it was.
ReadOne(f, cur) ==
  LET r0 == ReadSpecificSize(f, cur, CDR_SIZE, ErrCDShort)
      fn == Read2Byte(f, cur, 28)
      ex == Read2Byte(f, cur, 30)
      cm == Read2Byte(f, cur, 32)
      r1 == ReadSpecificSize(f, cur + 46, fn, ErrCDShort)
      r2 == ReadSpecificSize(f, cur + 46 + fn, ex, ErrCDShort)
      r3 == ReadSpecificSize(f, cur + 46 + fn + ex, cm, ErrCDShort)
  IN  IF r0.err # NoError THEN CDFail(cur, r0.err, r0.reads)
      ELSE IF \/ ByteAt(f, cur) # 80 \/ ByteAt(f, cur + 1) # 75
              \/ ByteAt(f, cur + 2) # 1 \/ ByteAt(f, cur + 3) # 2
      THEN CDFail(cur, ErrCDSig, r0.reads)
      ELSE IF r1.err # NoError
      THEN CDFail(cur, r1.err, r0.reads \cup r1.reads)
      ELSE IF r2.err # NoError
      THEN CDFail(cur, r2.err, r0.reads \cup r1.reads \cup r2.reads)
      ELSE IF r3.err # NoError
      THEN CDFail(cur, r3.err,
                  r0.reads \cup r1.reads \cup r2.reads \cup r3.reads)
      ELSE [err |-> NoError, rec |-> DecodeCDRecord(f, cur),
            curOffset |-> cur + 46 + fn + ex + cm,
            reads |-> r0.reads \cup r1.reads \cup r2.reads \cup r3.reads]

(* --------------------- Inflater, FileEntryReader ----------------------- *)
\* What zlib can answer to one inflate() of srcSize bytes into dstSize
\* bytes: whether inflateInit2 succeeded, the status, and the counts of
\* bytes consumed and produced.
CodecOutcomes(srcSize, dstSize) ==
  [initOk : {TRUE}, status : {Z_STREAM_END, Z_OK} \cup OtherStatuses,
   total_in : 0..srcSize, total_out : 0..dstSize]
  \cup {[initOk |-> FALSE, status |-> Z_OK, total_in |-> 0, total_out |-> 0]}

\* Inflater::doInflate: the error thrown for the codec's answer z ("" none).
DoInflate(srcSize, dstSize, z) ==
  IF ~z.initOk THEN ErrInflateInit
  ELSE IF z.status # Z_STREAM_END THEN ErrInflate
  ELSE IF z.total_out # dstSize THEN ErrInflateSize
  ELSE NoError

\* FileEntryReader::readFileContentOffset for _entry = entry.
ReadFileContentOffsetCentral(f, entry) ==
  LET lho == entry.localHeaderOffset
      r   == ReadSpecificSize(f, lho, LOCAL_FILE_HEADER_SIZE, ErrLFHShort)
      offset == lho + LOCAL_FILE_HEADER_SIZE + entry.fileNameLength
                  + entry.extraFieldLength
  IN  IF r.err # NoError
      THEN [err |-> r.err, offset |-> 0, reads |-> r.reads]
      ELSE IF \/ ByteAt(f, lho) # 80 \/ ByteAt(f, lho + 1) # 75
              \/ ByteAt(f, lho + 2) # 3 \/ ByteAt(f, lho + 3) # 4
      THEN [err |-> ErrLFHSig, offset |-> 0, reads |-> r.reads]
      ELSE IF offset >= f.size
      THEN [err |-> ErrLFHOffset, offset |-> 0, reads |-> r.reads]
      ELSE [err |-> NoError, offset |-> offset, reads |-> r.reads]

ReadFileContentOffset(f, entry) ==
  LET lho == entry.localHeaderOffset
      r   == ReadSpecificSize(f, lho, LOCAL_FILE_HEADER_SIZE, ErrLFHShort)
      fnameLen   == Read2Byte(f, lho, 26)
      exFieldLen == Read2Byte(f, lho, 28)
      offset == lho + LOCAL_FILE_HEADER_SIZE + fnameLen + exFieldLen
  IN  IF r.err # NoError
      THEN [err |-> r.err, offset |-> 0, reads |-> r.reads]
      ELSE IF \/ ByteAt(f, lho) # 80 \/ ByteAt(f, lho + 1) # 75
              \/ ByteAt(f, lho + 2) # 3 \/ ByteAt(f, lho + 3) # 4
      THEN [err |-> ErrLFHSig, offset |-> 0, reads |-> r.reads]
      ELSE IF offset >= f.size
      THEN [err |-> ErrLFHOffset, offset |-> 0, reads |-> r.reads]
      ELSE [err |-> NoError, offset |-> offset, reads |-> r.reads]

\* FileEntryReader::readRawContent(): compressedSize() bytes at _offset.
ReadRawContent(f, entry, offset) ==
  LET size == entry.compressedSize
      r    == ReadAt(f, offset, size)
  IN  IF size # entry.compressedSize
      THEN [err |-> ErrDstSize, buf |-> <<>>, reads |-> {}]
      ELSE IF r.err # NoError
      THEN [err |-> r.err, buf |-> <<>>, reads |-> r.reads]
      ELSE IF r.count # size
      THEN [err |-> ErrRawShort, buf |-> <<>>, reads |-> r.reads]
      ELSE [err |-> NoError, buf |-> Bytes(f, offset, size), reads |-> r.reads]

\* FileEntryReader::decompressRawContent: the error thrown ("" none).
DecompressRawContent(entry, srcSize, dstSize, z) ==
  IF entry.compressionMethod = 0 THEN ErrNoNeed
  ELSE IF entry.compressionMethod # 8 THEN ErrMethod
  ELSE IF srcSize < entry.compressedSize \/ dstSize < entry.uncompressedSize
  THEN ErrMismatch
  ELSE DoInflate(entry.compressedSize, entry.uncompressedSize, z)

\* The destination buffer after inflate: uncompressedSize zero bytes, the
\* first total_out of them written by the codec (the written value is the
\* codec's; 1 stands for it).
Inflated(entry, z) ==
  [i \in 1..entry.uncompressedSize |-> IF i <= z.total_out THEN 1 ELSE 0]

ReaderReadContentAnyMethod(f, entry, offset, z) ==
  LET raw == ReadRawContent(f, entry, offset)
      e   == DoInflate(entry.compressedSize, entry.uncompressedSize, z)
  IN  IF raw.err # NoError
      THEN [err |-> raw.err, content |-> <<>>, reads |-> raw.reads]
      ELSE IF entry.compressionMethod # 8
      THEN [err |-> NoError, content |-> raw.buf, reads |-> raw.reads]
      ELSE IF e # NoError
      THEN [err |-> e, content |-> <<>>, reads |-> raw.reads]
      ELSE [err |-> NoError, content |-> Inflated(entry, z),
            reads |-> raw.reads]

\* FileEntryReader::readContent with _offset = offset.
ReaderReadContent(f, entry, offset, z) ==
  LET raw == ReadRawContent(f, entry, offset)
      e   == DecompressRawContent(entry, Len(raw.buf),
                                  entry.uncompressedSize, z)
  IN  IF raw.err # NoError
      THEN [err |-> raw.err, content |-> <<>>, reads |-> raw.reads]
      ELSE IF entry.compressionMethod = 0
      THEN [err |-> NoError, content |-> raw.buf, reads |-> raw.reads]
      ELSE IF entry.compressionMethod # 8
      THEN [err |-> ErrMethod, content |-> <<>>, reads |-> raw.reads]
      ELSE IF e # NoError
      THEN [err |-> e, content |-> <<>>, reads |-> raw.reads]
      ELSE [err |-> NoError, content |-> Inflated(entry, z),
            reads |-> raw.reads]

\* FileEntry::readContent: a FileEntryReader is constructed (which resolves
\* the content offset) and its readContent() is returned.
ReadContent(f, entry, z) ==
  LET o == ReadFileContentOffset(f, entry)
      c == ReaderReadContent(f, entry, o.offset, z)
  IN  IF o.err # NoError
      THEN [err |-> o.err, content |-> <<>>, resolved |-> FALSE,
            offset |-> 0, reads |-> o.reads]
      ELSE [err |-> c.err, content |-> c.content, resolved |-> TRUE,
            offset |-> o.offset, reads |-> o.reads \cup c.reads]

(* ------------------------- archives (inputs) --------------------------- *)
\* The wire format the readers above decode, written out: a Local File
\* Header and content per entry, the Central Directory, the End Of Central
\* Directory Record and its comment.
LE2(n) == <<n % 256, (n \div 256) % 256>>
LE4(n) == <<n % 256, (n \div 256) % 256, (n \div 65536) % 256,
            (n \div 16777216) % 256>>
Fill(n, b) == [i \in 1..n |-> b]

\* An entry as stored: its name, method and sizes, the content bytes that
\* follow its local header, the extra-field length of the local header and
\* the extra-field and comment lengths of the central header.
Kind(name, method, csize, usize, data, lextra, extra, comment) ==
  [name |-> name, method |-> method, csize |-> csize, usize |-> usize,
   data |-> data, lextra |-> lextra, extra |-> extra, comment |-> comment]

\* "a", stored "hi"
PlainFile == Kind(<<97>>, 0, 2, 2, <<104, 105>>, 0, 0, 0)

EntryKinds ==
  { PlainFile,
    Kind(<<100, 47>>, 0, 0, 0, <<>>, 0, 0, 0),          \* "d/", a directory
    Kind(<<97>>, 8, 1, 2, <<75>>, 0, 0, 0),             \* "a", deflated
    Kind(<<97>>, 0, 1, 2, <<104>>, 0, 0, 0),            \* stored, sizes differ
    Kind(<<97>>, 12, 2, 2, <<104, 105>>, 0, 0, 0),      \* method 12
    Kind(<<>>, 0, 2, 2, <<104, 105>>, 3, 1, 1) }        \* local # central lengths

LocalBytes(k) ==
  <<80, 75, 3, 4>> \o LE2(20) \o LE2(0) \o LE2(k.method) \o LE2(11)
    \o LE2(12) \o LE4(13) \o LE4(k.csize) \o LE4(k.usize)
    \o LE2(Len(k.name)) \o LE2(k.lextra) \o k.name \o Fill(k.lextra, 9)
    \o k.data

CentralBytes(k, lho) ==
  <<80, 75, 1, 2>> \o LE2(20) \o LE2(20) \o LE2(0) \o LE2(k.method)
    \o LE2(11) \o LE2(12) \o LE4(13) \o LE4(k.csize) \o LE4(k.usize)
    \o LE2(Len(k.name)) \o LE2(k.extra) \o LE2(k.comment) \o LE2(0)
    \o LE2(14) \o LE4(15) \o LE4(lho) \o k.name \o Fill(k.extra, 9)
    \o Fill(k.comment, 99)

EOCDBytes(n, cdSize, cdOffset, commentLen) ==
  <<80, 75, 5, 6>> \o LE2(0) \o LE2(0) \o LE2(n) \o LE2(n) \o LE4(cdSize)
    \o LE4(cdOffset) \o LE2(commentLen)

\* The directory entry a stored entry stands for.
TrueRecord(k, lho) ==
  [flags |-> 0, compressionMethod |-> k.method, lastModTime |-> 11,
   lastModDate |-> 12, crc |-> 13, compressedSize |-> k.csize,
   uncompressedSize |-> k.usize, fileNameLength |-> Len(k.name),
   extraFieldLength |-> k.extra, commentLength |-> k.comment,
   internalFileAttrs |-> 14, externalFileAttrs |-> 15,
   localHeaderOffset |-> lho, fileName |-> k.name,
   extraField |-> Fill(k.extra, 9), comment |-> Fill(k.comment, 99)]

RECURSIVE LocalUpTo(_, _)
LocalUpTo(kinds, n) ==
  IF n = 0 THEN <<>> ELSE LocalUpTo(kinds, n - 1) \o LocalBytes(kinds[n])

LocalOffset(kinds, i) == Len(LocalUpTo(kinds, i - 1))

RECURSIVE CentralUpTo(_, _)
CentralUpTo(kinds, n) ==
  IF n = 0 THEN <<>>
  ELSE CentralUpTo(kinds, n - 1)
         \o CentralBytes(kinds[n], LocalOffset(kinds, n))

\* The shape of the archive comment: pre bytes of "PK", then perhaps a
\* decoy record (one whose own comment length fits what follows it: "ok",
\* or is one more than what follows it: "bad"), then post bytes of "PK".
Shape(pre, decoy, post) == [pre |-> pre, decoy |-> decoy, post |-> post]

CommentLen(sh) ==
  sh.pre + (IF sh.decoy = "none" THEN 0 ELSE EOCDR_SIZE) + sh.post

MaxComment == 2 ^ 16 - 1

\* the longest comment that leaves the signature in the first window
FitComment == bufLens[1] - EOCDR_SIZE

Shapes ==
  { Shape(0, "none", 0),
    Shape(1, "none", 0),
    Shape(FitComment, "none", 0),
    Shape(FitComment + 1, "none", 0),
    Shape(MaxComment, "none", 0),
    Shape(0, "ok", 0),
    Shape(0, "bad", 0),
    Shape(1, "ok", 2),
    Shape(1, "ok", FitComment + 1),
    Shape(FitComment + 1, "ok", 0),
    Shape(FitComment + 1, "bad", 2),
    Shape(MaxComment - EOCDR_SIZE - 2, "ok", 2) }

DecoyRecord == EOCDRecord(7, 0, 0)

DecoyBytes(sh) ==
  EOCDBytes(DecoyRecord.cdEntryNum, DecoyRecord.cdSize, DecoyRecord.cdOffset,
            IF sh.decoy = "ok" THEN sh.post ELSE sh.post + 1)

NoPatch == [pos |-> -1, val |-> 0]

\* The source built for: the stored entries kinds, a record that declares
\* the first decl of them and a directory size off by adj, the comment
\* shape sh and the patch.
Source(kinds, decl, adj, sh, patch) ==
  LET n    == Len(kinds)
      body == LocalUpTo(kinds, n) \o CentralUpTo(kinds, n)
                \o EOCDBytes(decl, Len(CentralUpTo(kinds, decl)) + adj,
                             Len(LocalUpTo(kinds, n)), CommentLen(sh))
      dec  == IF sh.decoy = "none" THEN 0 ELSE EOCDR_SIZE
  IN  [size |-> Len(body) + CommentLen(sh),
       chunks |-> << [len |-> Len(body), data |-> body],
                     [len |-> sh.pre, data |-> <<80, 75>>],
                     [len |-> dec, data |-> DecoyBytes(sh)],
                     [len |-> sh.post, data |-> <<80, 75>>] >>,
       patch |-> patch]

\* What is true of that source, for the properties to refer to.
Truth(kinds, decl, adj, sh, patch) ==
  LET n == Len(kinds)
  IN  [entries |-> [i \in 1..n |-> TrueRecord(kinds[i], LocalOffset(kinds, i))],
       cdStart |-> [i \in 1..(n + 1) |->
                      Len(LocalUpTo(kinds, n)) + Len(CentralUpTo(kinds, i - 1))],
       contentAt |-> [i \in 1..n |->
                        LocalOffset(kinds, i) + Len(LocalBytes(kinds[i]))
                          - Len(kinds[i].data)],
       data |-> [i \in 1..n |-> kinds[i].data],
       decl |-> decl,
       adj |-> adj,
       record |-> EOCDRecord(decl, Len(CentralUpTo(kinds, decl)) + adj,
                             Len(LocalUpTo(kinds, n))),
       recordAt |-> Len(LocalUpTo(kinds, n)) + Len(CentralUpTo(kinds, n)),
       commentLen |-> CommentLen(sh),
       decoy |-> sh.decoy,
       patched |-> patch.pos # -1,
       cdIntact |-> \/ patch.pos < Len(LocalUpTo(kinds, n))
                    \/ patch.pos >= Len(LocalUpTo(kinds, n))
                                      + Len(CentralUpTo(kinds, n)),
       valid |-> patch.pos = -1 /\ decl = n /\ adj = 0]

RECURSIVE SeqsUpTo(_, _)
SeqsUpTo(S, n) ==
  IF n = 0 THEN {<<>>}
  ELSE SeqsUpTo(S, n - 1)
         \cup {Append(s, x) : s \in {t \in SeqsUpTo(S, n - 1) : Len(t) = n - 1},
                              x \in S}

\* One byte overwritten in entry i of an archive without comment: a
\* signature, a length, the compressed size or the local header offset.
Patches(kinds) ==
  LET n    == Len(kinds)
      cd0  == Len(LocalUpTo(kinds, n))
      size == cd0 + Len(CentralUpTo(kinds, n)) + EOCDR_SIZE
      cd(i) == cd0 + Len(CentralUpTo(kinds, i - 1))
  IN  UNION { { [pos |-> cd(i) + 2, val |-> 9],
                [pos |-> cd(i) + 29, val |-> 255],
                [pos |-> cd(i) + 23, val |-> 1],
                [pos |-> cd(i) + 43, val |-> 1],
                [pos |-> cd(i) + 42, val |-> (size - 10) % 256],
                [pos |-> LocalOffset(kinds, i) + 3, val |-> 9],
                [pos |-> LocalOffset(kinds, i) + 29, val |-> 255] }
              : i \in 1..n }
      \cup (IF n = 0 THEN {}
            ELSE {[pos |-> cd(n) + 32, val |-> kinds[n].comment + 1]})

\* The inputs: archives with a comment of every shape and at most one
\* entry, and archives of every list of entries without comment, as they
\* are, with one byte overwritten, or with a record that declares fewer
\* entries, a directory size off by one, or one 256 too large, which ends
\* beyond the source.
Inputs ==
  { [kinds |-> ks, decl |-> Len(ks), adj |-> 0, sh |-> sh, patch |-> NoPatch]
      : ks \in SeqsUpTo({PlainFile}, 1),
        sh \in Shapes }
  \cup UNION { { [kinds |-> ks, decl |-> Len(ks), adj |-> 0,
                  sh |-> Shape(0, "none", 0), patch |-> pt]
                  : pt \in Patches(ks) }
               \cup { [kinds |-> ks, decl |-> d, adj |-> 0,
                       sh |-> Shape(0, "none", 0), patch |-> NoPatch]
                       : d \in 0..Len(ks) }
               \cup { [kinds |-> ks, decl |-> Len(ks), adj |-> a,
                       sh |-> Shape(0, "none", 0), patch |-> NoPatch]
                       : a \in {b \in {-1, 1, 256} : b >= -Len(ks)} }
               : ks \in SeqsUpTo(EntryKinds, MaxEntries) }

(* ------------------------------- state --------------------------------- *)
VARIABLES
  file,     \* the File: _size and the bytes _readAt serves
  truth,    \* what the source was built from (never read by the program)
  phase,    \* "new", then "open" (UnZipper constructed) or "failed" (it threw)
  eocd,     \* UnZipper::_eocdRecord
  loc,      \* how readEOCDRecord ended: windows read, where the record was
  en,       \* the enumeration in use: a FileEntryLister and its CDReader
            \* (cppunzip.hpp), or a file_entry_iterator (sample_test.cpp)
  use,      \* how the caller has used en: calls that threw, calls at the end
  pass,     \* enumerations started so far
  yielded,  \* the entries en has produced, in order
  prev,     \* those of the enumeration before, and whether it ran to its end
  cur,      \* the FileEntry the caller holds
  last      \* the last call: its name, error, reads, result

vars == <<file, truth, phase, eocd, loc, en, use, pass, yielded, prev, cur, last>>

NoZ == [initOk |-> TRUE, status |-> Z_OK, total_in |-> 0, total_out |-> 0]

Call(op, err, reads) ==
  [op |-> op, err |-> err, reads |-> reads, at |-> 0, atEnd |-> FALSE,
   inOrder |-> TRUE,
   content |-> <<>>, resolved |-> FALSE, offset |-> 0, invoked |-> FALSE,
   z |-> NoZ, val |-> FALSE]

NoEnum ==
  [kind |-> "none", curOffset |-> 0, endOffset |-> 0, setupDone |-> FALSE,
   nextOffset |-> 0, curEntry |-> EmptyCDRecord]

FreshUse == [failed |-> FALSE, overrun |-> FALSE, misuse |-> 0]

NoFileEntry == [held |-> FALSE, entry |-> EmptyCDRecord]

\* FileEntry::FileEntry keeps the record and reads nothing.
FileEntry(entry) == [held |-> TRUE, entry |-> entry]

FileEntryReadsEager(f, entry) == ReadFileContentOffset(f, entry).reads

FileEntryReads(f, entry) == {}

Init ==
  /\ \E in \in Inputs :
       /\ file = Source(in.kinds, in.decl, in.adj, in.sh, in.patch)
       /\ truth = Truth(in.kinds, in.decl, in.adj, in.sh, in.patch)
  /\ phase = "new"
  /\ eocd = NoEOCD
  /\ loc = [attempts |-> 0, sigAt |-> -1]
  /\ en = NoEnum
  /\ use = FreshUse
  /\ pass = 0
  /\ yielded = <<>>
  /\ prev = [done |-> FALSE, seq |-> <<>>]
  /\ cur = NoFileEntry
  /\ last = Call("none", NoError, {})

(* ------------------------------ UnZipper ------------------------------- *)
\* UnZipper::UnZipper: _eocdRecord(ReadEOCDRecord(file)), or the throw.
Open ==
  /\ phase = "new"
  /\ LET r == ReadEOCDRecord(file)
     IN  /\ phase' = IF r.err = NoError THEN "open" ELSE "failed"
         /\ eocd' = r.rec
         /\ loc' = [attempts |-> r.attempts, sigAt |-> r.sigAt]
         /\ last' = Call("open", r.err, r.reads)
  /\ UNCHANGED <<file, truth, en, use, pass, yielded, prev, cur>>

\* UnZipper::fileEntryNum
FileEntryNum == eocd.cdEntryNum

\* The enumeration in use is over: it reached its end or a call on it threw.
Over ==
  \/ en.kind = "none"
  \/ use.failed
  \/ en.kind = "lister" /\ IsEnd(en.curOffset, en.endOffset)
  \/ en.kind = "iter" /\ en.curOffset = en.endOffset

StartEnum(kind) ==
  /\ phase = "open"
  /\ pass < MaxPasses
  /\ Over
  /\ en' = [kind |-> kind, curOffset |-> eocd.cdOffset,
            endOffset |-> CDEnd(eocd), setupDone |-> FALSE,
            nextOffset |-> 0, curEntry |-> EmptyCDRecord]
  /\ use' = FreshUse
  /\ pass' = pass + 1
  /\ prev' = [done |-> en.kind # "none" /\ ~use.failed /\ ~use.overrun,
             seq |-> yielded]
  /\ yielded' = <<>>
  /\ cur' = NoFileEntry
  /\ UNCHANGED <<file, truth, phase, eocd, loc>>

\* UnZipper::listFiles of cppunzip.hpp: a FileEntryLister whose CDReader
\* starts at the record's directory.
ListFiles ==
  /\ StartEnum("lister")
  /\ last' = Call("listFiles", NoError, {})

\* listFiles().begin() of sample_test.cpp: a file_entry_iterator at
\* _cdStartOffset (end() is one at _cdEndOffset).
Begin ==
  /\ StartEnum("iter")
  /\ last' = Call("begin", NoError, {})

\* A call is in order while the enumeration is not over; the caller makes
\* at most MaxMisuse calls that are not.
MayCall == ~Over \/ use.misuse < MaxMisuse

Used(err, atEnd) ==
  [failed |-> use.failed \/ err # NoError,
   overrun |-> use.overrun \/ atEnd,
   misuse |-> IF Over THEN use.misuse + 1 ELSE use.misuse]

(* --------------------------- FileEntryLister --------------------------- *)
\* FileEntryLister::isEnd
ListerIsEnd == IsEnd(en.curOffset, en.endOffset)

\* FileEntryLister::readNext: FileEntry(_file, _cdReader.readOne()).
ReadNext ==
  /\ en.kind = "lister"
  /\ MayCall
  /\ \E r \in {ReadOne(file, en.curOffset)} :
         /\ en' = [en EXCEPT !.curOffset = r.curOffset]
         /\ use' = Used(r.err, ListerIsEnd)
         /\ yielded' = IF r.err = NoError THEN Append(yielded, r.rec)
                                          ELSE yielded
         /\ cur' = IF r.err = NoError THEN FileEntry(r.rec) ELSE cur
         /\ last' = [Call("readNext", r.err,
                          IF r.err = NoError
                          THEN r.reads \cup FileEntryReads(file, r.rec)
                          ELSE r.reads) EXCEPT
                       !.at = en.curOffset, !.atEnd = ListerIsEnd,
                       !.inOrder = ~Over]
  /\ UNCHANGED <<file, truth, phase, eocd, loc, pass, prev>>

(* ------------------------- file_entry_iterator ------------------------- *)
\* file_entry_iterator::ensureInit: nothing when _setupDone; else
\* _setupDone is set, then a CDReader at _curOffset reads one record into
\* _curEntry and its cursor goes to _nextOffset; a throw of readOne leaves
\* _setupDone set and the rest as it was.
EnsureInit(f, it) ==
  LET r == ReadOne(f, it.curOffset)
  IN  IF it.setupDone THEN [err |-> NoError, it |-> it, reads |-> {}]
      ELSE IF r.err # NoError
      THEN [err |-> r.err, it |-> [it EXCEPT !.setupDone = TRUE],
            reads |-> r.reads]
      ELSE [err |-> NoError,
            it |-> [it EXCEPT !.setupDone = TRUE, !.curEntry = r.rec,
                              !.nextOffset = r.curOffset],
            reads |-> r.reads \cup FileEntryReads(f, r.rec)]

IterAtEnd == en.curOffset = en.endOffset

\* file_entry_iterator::operator*
Deref ==
  /\ en.kind = "iter"
  /\ MayCall
  /\ \E e \in {EnsureInit(file, en)} :
         /\ en' = e.it
         /\ use' = Used(e.err, IterAtEnd)
         /\ cur' = IF e.err = NoError THEN FileEntry(e.it.curEntry) ELSE cur
         /\ last' = [Call("deref", e.err, e.reads) EXCEPT
                       !.at = en.curOffset, !.atEnd = IterAtEnd,
                       !.inOrder = ~Over]
  /\ UNCHANGED <<file, truth, phase, eocd, loc, pass, yielded, prev>>

\* file_entry_iterator::operator++
Incr ==
  /\ en.kind = "iter"
  /\ MayCall
  /\ \E e \in {EnsureInit(file, en)} :
         /\ en' = IF e.err # NoError THEN e.it
                  ELSE [e.it EXCEPT !.curOffset = e.it.nextOffset,
                                    !.setupDone = FALSE]
         /\ use' = Used(e.err, IterAtEnd)
         /\ yielded' = IF e.err = NoError THEN Append(yielded, e.it.curEntry)
                                          ELSE yielded
         /\ last' = [Call("incr", e.err, e.reads) EXCEPT
                       !.at = en.curOffset, !.atEnd = IterAtEnd,
                       !.inOrder = ~Over]
  /\ UNCHANGED <<file, truth, phase, eocd, loc, pass, prev, cur>>

(* ------------------------------ FileEntry ------------------------------ *)
Produced == last.op \in {"readNext", "deref", "isDir"} /\ last.err = NoError

\* FileEntry::isDir (and fileName(), the _fileName it tests)
Query ==
  /\ cur.held
  /\ last.op \in {"readNext", "deref"} /\ last.err = NoError
  /\ last' = [Call("isDir", NoError, {}) EXCEPT !.val = IsDir(cur.entry)]
  /\ UNCHANGED <<file, truth, phase, eocd, loc, en, use, pass, yielded, prev,
                 cur>>

\* Whether readContent() on entry gets as far as the codec.
CodecInvoked(f, entry) ==
  LET o == ReadFileContentOffset(f, entry)
  IN  /\ o.err = NoError
      /\ ReadRawContent(f, entry, o.offset).err = NoError
      /\ entry.compressionMethod = 8

ReadEntryContentRewinds ==
  /\ cur.held
  /\ Produced
  /\ LET inv == CodecInvoked(file, cur.entry)
     IN  \E z \in IF inv THEN CodecOutcomes(cur.entry.compressedSize,
                                             cur.entry.uncompressedSize)
                         ELSE {NoZ} :
           LET r == ReadContent(file, cur.entry, z)
           IN  /\ last' = [Call("readContent", r.err, r.reads) EXCEPT
                             !.content = r.content, !.resolved = r.resolved,
                             !.offset = r.offset, !.invoked = inv, !.z = z]
               /\ en' = IF r.err = NoError THEN en
                        ELSE [en EXCEPT !.curOffset = eocd.cdOffset,
                                        !.setupDone = FALSE]
  /\ UNCHANGED <<file, truth, phase, eocd, loc, use, pass, yielded, prev, cur>>

\* FileEntry::readContent on the entry the caller holds.
ReadEntryContent ==
  /\ cur.held
  /\ Produced
  /\ LET inv == CodecInvoked(file, cur.entry)
     IN  \E z \in IF inv THEN CodecOutcomes(cur.entry.compressedSize,
                                             cur.entry.uncompressedSize)
                         ELSE {NoZ} :
           LET r == ReadContent(file, cur.entry, z)
           IN  last' = [Call("readContent", r.err, r.reads) EXCEPT
                          !.content = r.content, !.resolved = r.resolved,
                          !.offset = r.offset, !.invoked = inv, !.z = z]
  /\ UNCHANGED <<file, truth, phase, eocd, loc, en, use, pass, yielded, prev,
                 cur>>

Next ==
  \/ Open
  \/ ListFiles
  \/ Begin
  \/ ReadNext
  \/ Deref
  \/ Incr
  \/ Query
  \/ ReadEntryContent

Spec == Init /\ [][Next]_vars

\* The loop of the caller: while the enumeration is not over (!isEnd(), or
\* it != end(), and no call has thrown) the next readNext() or ++ is made.
EnumStep == ~Over /\ (ReadNext \/ Incr)

\* The enumeration alone: isDir() and readContent() on the entries handed
\* out change nothing an enumeration reads (FileEntry keeps its own copy of
\* the record), so the loop is followed without them.
EnumNext ==
  \/ Open
  \/ ListFiles
  \/ Begin
  \/ ReadNext
  \/ Deref
  \/ Incr

LiveSpec == Init /\ [][EnumNext]_vars /\ WF_vars(EnumStep)

(* ============================ properties =============================== *)
\* A little-endian u16 / u32 of the source, by arithmetic on its bytes.
U16At(pos) == ByteAt(file, pos) + 256 * ByteAt(file, pos + 1)
U32At(pos) == U16At(pos) + 65536 * U16At(pos + 2)

\* The directory entries of the range the stored record gives, when they
\* tile it: those the record of the archive declares, or none for the
\* (empty) directory of a record found in the comment.
Tiled == truth.adj = 0 /\ truth.cdIntact
InRange ==
  IF loc.sigAt = truth.recordAt THEN SubSeq(truth.entries, 1, truth.decl)
  ELSE <<>>

\* C1: over an archive whose directory entries exactly tile the range of
\* the record, an enumeration (isEnd()/readNext(), or begin()/end() with *
\* and ++) used in order never fails, yields the entries of the range once
\* each in storage order, is at its end exactly when it has yielded them
\* all, and a second enumeration that ran to its end has yielded the same
\* sequence as the one before.
C1_EnumerationInOrder ==
  (phase = "open" /\ Tiled /\ en.kind # "none" /\ ~use.overrun) =>
     /\ ~use.failed
     /\ Len(yielded) <= Len(InRange)
     /\ yielded = SubSeq(InRange, 1, Len(yielded))
     /\ Over <=> Len(yielded) = Len(InRange)
     /\ (last.op = "readNext") => cur.entry = InRange[Len(yielded)]
     /\ (last.op = "deref") => cur.entry = InRange[Len(yielded) + 1]
     /\ (Over /\ prev.done) => yielded = prev.seq

C1_Witness ==
  /\ phase = "open" /\ Tiled /\ ~use.overrun /\ ~use.failed
  /\ pass = 2 /\ en.kind = "iter" /\ Over /\ prev.done
  /\ Len(yielded) = 2 /\ yielded = prev.seq
  /\ yielded[2].commentLength = 1

\* The window readEOCDRecord reads on its i-th turn.
WindowOrigin(i) == IF file.size > bufLens[i] THEN file.size - bufLens[i] ELSE 0
WindowRead(i) == Min(bufLens[i], file.size)

\* Position p of a window of n bytes read at origin holds an acceptable record.
Acceptable(origin, n, p) ==
  /\ <<ByteAt(file, origin + p), ByteAt(file, origin + p + 1),
       ByteAt(file, origin + p + 2), ByteAt(file, origin + p + 3)>>
       = <<80, 75, 5, 6>>
  /\ p + 22 + U16At(origin + p + 20) <= n

\* C2: the position the locator accepts in the window it stops at holds the
\* signature and has p + 22 + commentLength <= bytesRead, no position after
\* it in that window has both, every window before it holds no such
\* position, and the record is the u16 at p+10 and the u32s at p+12, p+16.
C2_LocatorAccepts ==
  (last.op = "open" /\ phase = "open") =>
     LET origin == WindowOrigin(loc.attempts)
         n      == WindowRead(loc.attempts)
         p      == loc.sigAt - origin
     IN  /\ p \in 0..(n - 22)
         /\ Acceptable(origin, n, p)
         /\ \A q \in (p + 1)..(n - 22) : ~Acceptable(origin, n, q)
         /\ \A i \in 1..(loc.attempts - 1) :
              \A q \in 0..(WindowRead(i) - 22) :
                 ~Acceptable(WindowOrigin(i), WindowRead(i), q)
         /\ eocd.cdEntryNum = U16At(loc.sigAt + 10)
         /\ eocd.cdSize = U32At(loc.sigAt + 12)
         /\ eocd.cdOffset = U32At(loc.sigAt + 16)

\* a signature whose comment length does not fit was passed over, and of two
\* acceptable records the later one was taken
C2_Witness ==
  /\ last.op = "open" /\ phase = "open"
  /\ loc.sigAt > truth.recordAt
  /\ eocd = DecoyRecord
  /\ loc.attempts = 2

\* The comment of the archive holds an acceptable record.
CommentHoldsRecord ==
  \E q \in (truth.recordAt + 22)..(file.size - 22) :
     Acceptable(0, file.size, q)

LongComment == truth.commentLen > FitComment

C4_AsStated ==
  (phase # "new" /\ truth.valid /\ Len(truth.entries) = 0
     /\ ~CommentHoldsRecord) =>
     /\ phase = "open"
     /\ FileEntryNum = 0
     /\ last.op \in {"listFiles", "begin"} => Over /\ last.reads = {}

\* C5 as stated, for the entries of a valid archive enumerated in order: a
\* readContent() that returns returns uncompressedSize bytes, and for
\* method 0 they are the source bytes at the content offset.
C5_AsStated ==
  (last.op = "readContent" /\ last.err = NoError /\ truth.valid
     /\ ~use.overrun /\ ~use.failed) =>
     /\ Len(last.content) = cur.entry.uncompressedSize
     /\ cur.entry.compressionMethod = 0 =>
          \A i \in 1..Len(last.content) :
             last.content[i] = ByteAt(file, last.offset + i - 1)

LocalHeaderErrors == {ErrOutside, ErrLFHShort, ErrLFHSig, ErrLFHOffset}

\* C6: readContent() resolves the content offset exactly when the 30 bytes
\* at localHeaderOffset can be read, start with 50 4B 03 04 and
\* localHeaderOffset + 30 + u16 at 26 + u16 at 28 (of the local header) is
\* below the source size; the offset is that sum; otherwise it fails with
\* one of the local-header errors and returns nothing.
C6_ContentOffset ==
  (last.op = "readContent") =>
     LET lho == cur.entry.localHeaderOffset
         off == lho + 30 + U16At(lho + 26) + U16At(lho + 28)
     IN  /\ last.resolved <=>
              /\ lho + 30 <= file.size
              /\ <<ByteAt(file, lho), ByteAt(file, lho + 1),
                   ByteAt(file, lho + 2), ByteAt(file, lho + 3)>>
                   = <<80, 75, 3, 4>>
              /\ off < file.size
         /\ last.resolved => last.offset = off
         /\ ~last.resolved =>
              last.err \in LocalHeaderErrors /\ last.content = <<>>
         /\ \A i \in DOMAIN truth.entries :
              (~truth.patched /\ cur.entry = truth.entries[i]) =>
                 last.resolved /\ last.offset = truth.contentAt[i]

\* the local header's extra field is longer than the central one's
C6_Witness ==
  /\ last.op = "readContent" /\ last.resolved /\ last.err = NoError
  /\ U16At(cur.entry.localHeaderOffset + 28) # cur.entry.extraFieldLength
  /\ cur.entry.localHeaderOffset > 0
  /\ last.content = <<104, 105>>

\* C7 as stated, for the entries an enumeration used in order has yielded:
\* for a method other than 0 and 8 readContent() returns nothing and its
\* error is the unsupported-method one, whatever the local header and the
\* content.
C7_AsStated ==
  (last.op = "readContent" /\ cur.entry.compressionMethod \notin {0, 8}
     /\ ~use.overrun /\ ~use.failed) =>
     last.err = ErrMethod /\ last.content = <<>>

\* C7 (amended): for a method other than 0 and 8 readContent() returns
\* nothing; its error is the unsupported-method one (a text no other throw
\* uses) exactly when the content offset resolves and compressedSize bytes
\* can be read there; else it is the local-header error, or the short-read
\* error of the content.
C7_UnsupportedMethod ==
  (last.op = "readContent" /\ cur.entry.compressionMethod \notin {0, 8}) =>
     LET fits == last.offset + cur.entry.compressedSize <= file.size
     IN  /\ last.err # NoError
         /\ last.content = <<>>
         /\ last.err = ErrMethod <=> (last.resolved /\ fits)
         /\ ~last.resolved => last.err \in LocalHeaderErrors
         /\ (last.resolved /\ ~fits) => last.err = ErrRawShort
         /\ ErrMethod \notin LocalHeaderErrors \cup {ErrRawShort}

C7_Witness ==
  /\ last.op = "readContent" /\ cur.entry.compressionMethod = 12
  /\ last.resolved /\ last.err = ErrMethod /\ last.content = <<>>

\* The 4 bytes at pos are not 50 4B 01 02.
BadCDSig(pos) ==
  <<ByteAt(file, pos), ByteAt(file, pos + 1), ByteAt(file, pos + 2),
    ByteAt(file, pos + 3)>> # <<80, 75, 1, 2>>

\* C8: a readNext() (and the read a not yet set up iterator makes for * or
\* ++) at a cursor whose 4 bytes are not 50 4B 01 02 fails, yields no entry,
\* hands the caller none and leaves the cursor where it was.
C8_BadSignatureFails ==
  [][ ( /\ BadCDSig(en.curOffset)
        /\ \/ last'.op = "readNext"
           \/ last'.op \in {"deref", "incr"} /\ ~en.setupDone )
      => /\ last'.err # NoError
         /\ en'.curOffset = en.curOffset
         /\ yielded' = yielded
         /\ cur' = cur ]_vars

\* the second entry's signature is corrupt: the first was yielded, the
\* call failed on the signature and the cursor stays on the corrupt entry
C8_Witness ==
  /\ last.op = "readNext" /\ last.err = ErrCDSig /\ ~last.atEnd
  /\ BadCDSig(en.curOffset) /\ en.curOffset = last.at
  /\ Len(yielded) = 1 /\ cur.entry = yielded[1]

\* C9 as stated: a read of the next entry made at the end of the range
\* fails.
C9_AsStated ==
  (last.op \in {"readNext", "deref", "incr"} /\ last.atEnd /\ last.at = en.endOffset)
     => last.err # NoError

WindowReads == {[pos |-> WindowOrigin(i), len |-> bufLens[i]] : i \in 1..2}

\* r reads the fixed header at the cursor at, or lies within the name, extra
\* field and comment that header declares.
CursorRead(r, at) ==
  \/ r = [pos |-> at, len |-> 46]
  \/ /\ r.pos >= at + 46
     /\ r.pos + r.len <= at + 46 + U16At(at + 28) + U16At(at + 30)
                            + U16At(at + 32)

EnumOps == {"readNext", "deref", "incr"}

\* C10: opening reads only the trailing windows; starting an enumeration
\* and isDir()/fileName() read nothing; readNext(), * and ++ read only at
\* the cursor, which in an enumeration used in order is never before the
\* directory, where the local headers and contents are; isDir() is true
\* exactly for the name that ends with '/'.
C10_ListingReads ==
  /\ last.op = "open" => last.reads \subseteq WindowReads
  /\ last.op \in {"listFiles", "begin", "isDir"} => last.reads = {}
  /\ last.op \in EnumOps => \A r \in last.reads : CursorRead(r, last.at)
  /\ (last.op \in EnumOps /\ last.inOrder /\ loc.sigAt = truth.recordAt) =>
        \A r \in last.reads : r.pos >= truth.cdStart[1]
  /\ last.op = "isDir" => (last.val <=> cur.entry.fileName = <<100, 47>>)

C10_Witness ==
  /\ last.op = "isDir" /\ last.val /\ en.kind = "lister"
  /\ Len(yielded) = 2 /\ cur.entry = yielded[2]
  /\ yielded[1].compressedSize = 2

\* C11: a readContent() that fails changes neither the stored record nor the
\* source nor the cursor, the other fields or the yielded entries of the
\* enumeration, nor the entry the caller holds; and the enumeration call
\* that follows it gives what readOne gives at that unchanged cursor, which
\* over a tiled directory used in order is the next entry of the range.
C11_FailedReadFrame ==
  [][ /\ (last'.op = "readContent" /\ last'.err # NoError) =>
           /\ eocd' = eocd /\ phase' = phase /\ file' = file
           /\ en' = en /\ yielded' = yielded /\ cur' = cur
      /\ (last.op = "readContent" /\ last.err # NoError
            /\ last'.op = "readNext") =>
           LET r == ReadOne(file, en.curOffset)
           IN  /\ last'.err = r.err
               /\ en'.curOffset = r.curOffset
               /\ r.err = NoError => cur'.entry = r.rec
               /\ (Tiled /\ last'.inOrder /\ ~use.overrun) =>
                    r.err = NoError /\ r.rec = InRange[Len(yielded) + 1]
      /\ (last.op = "readContent" /\ last.err # NoError
            /\ last'.op \in {"deref", "incr"}) =>
           LET e == EnsureInit(file, en)
           IN  /\ last'.err = e.err
               /\ (last'.op = "deref" /\ e.err = NoError) =>
                    en' = e.it /\ cur'.entry = e.it.curEntry
               /\ (last'.op = "incr" /\ e.err = NoError) =>
                    en'.curOffset = e.it.nextOffset
               /\ (Tiled /\ last'.inOrder /\ ~use.overrun) =>
                    /\ e.err = NoError
                    /\ e.it.curEntry = InRange[Len(yielded) + 1]
    ]_vars

\* the first of two entries was yielded, readContent() on it failed (its
\* local header is corrupt) and the enumeration stands before the second
C11_Witness ==
  /\ last.op = "readContent" /\ last.err = ErrLFHSig
  /\ Tiled /\ en.kind = "lister" /\ ~Over
  /\ Len(yielded) = 1 /\ Len(InRange) = 2
  /\ en.curOffset = truth.cdStart[2]

\* C12 as stated: once the UnZipper is constructed the stored record has
\* cdOffset + cdSize <= the source size, and the end of every enumeration
\* is that sum.
C12_AsStated ==
  (phase = "open") =>
     /\ eocd.cdOffset + eocd.cdSize <= file.size
     /\ en.kind # "none" => en.endOffset = eocd.cdOffset + eocd.cdSize

\* The enumeration reports a next entry: !isEnd() of the FileEntryLister,
\* it != end() of the iterator.
HasNext == IF en.kind = "lister" THEN ~ListerIsEnd ELSE ~IterAtEnd

\* 46 + fileNameLength + extraFieldLength + commentLength of the header at pos
EntrySize(pos) == 46 + U16At(pos + 28) + U16At(pos + 30) + U16At(pos + 32)

\* C13 as stated: a successful read of an entry, in an enumeration used in
\* order, advances the cursor (of the iterator: the offset ++ takes) by 46
\* + the three lengths of the header read, and the enumeration reports a
\* next entry exactly when its cursor is below its end.
C13_AsStated ==
  [][ /\ (last'.op \in {"readNext", "incr"} /\ last'.err = NoError
            /\ last'.inOrder) =>
           en'.curOffset = en.curOffset + EntrySize(en.curOffset)
      /\ (last'.op = "deref" /\ last'.err = NoError /\ last'.inOrder) =>
           en'.nextOffset = en.curOffset + EntrySize(en.curOffset)
      /\ (en'.kind # "none" /\ ~use'.overrun /\ ~use'.failed) =>
           (HasNext' <=> en'.curOffset < en'.endOffset)
    ]_vars

\* C14 as stated, for the entries of a valid archive enumerated in order:
\* readContent() of a method 8 entry returns bytes only when the codec was
\* run and answered end-of-stream with all compressedSize bytes consumed
\* and uncompressedSize bytes produced, which are the bytes returned.
C14_AsStated ==
  (last.op = "readContent" /\ cur.entry.compressionMethod = 8
     /\ last.err = NoError /\ truth.valid /\ ~use.overrun /\ ~use.failed) =>
     /\ last.invoked
     /\ last.z.initOk
     /\ last.z.status = Z_STREAM_END
     /\ last.z.total_out = cur.entry.uncompressedSize
     /\ Len(last.content) = cur.entry.uncompressedSize
     /\ last.z.total_in = cur.entry.compressedSize

\* C15 as stated: once a * or ++ of an iterator has failed, every later *
\* or ++ of that iterator fails too, hands the caller no entry, yields none
\* and leaves the offset of the iterator where it was.
C15_AsStated ==
  [][ (en.kind = "iter" /\ use.failed /\ last'.op \in {"deref", "incr"}) =>
         /\ last'.err # NoError
         /\ cur' = cur
         /\ yielded' = yielded
         /\ en'.curOffset = en.curOffset ]_vars

\* C16: an enumeration that is kept going while it is not over (readNext()
\* until isEnd(), or ++ until the iterator equals end()) gets over, by
\* reaching its end or by an error: every successful read made in order
\* moves the cursor up by at least 46 and not beyond the size of the source,
\* and every read of an entry at a cursor with fewer than 46 bytes left in
\* the source fails.
C16_Terminates ==
  /\ [][ /\ (last'.op \in {"readNext", "incr"} /\ last'.err = NoError
                /\ last'.inOrder) =>
               /\ en'.curOffset >= en.curOffset + 46
               /\ en'.curOffset <= file.size
         /\ (last'.op \in EnumOps /\ en.curOffset + 46 > file.size
               /\ (last'.op = "readNext" \/ ~en.setupDone)) =>
              last'.err # NoError ]_vars
  /\ (en.kind # "none" /\ ~Over) ~> Over

\* an iterator whose cursor passed the end of the range (the record gives a
\* directory size one too small) went on and was stopped by an error
C16_Witness ==
  /\ en.kind = "iter" /\ use.failed /\ ~use.overrun /\ use.misuse = 0
  /\ en.curOffset > en.endOffset
  /\ Len(yielded) = 2
  /\ last.op \in {"deref", "incr"} /\ last.err = ErrCDShort

====
